---- MODULE Spec2Model ----
(***************************************************************************)
(* A model of powerbox/tools.py: the radial binning and averaging engine   *)
(* (angular_average, angular_average_nd and their helpers) and get_power.  *)
(*                                                                         *)
(* Numbers.  A numpy float is modelled as an exact rational [n, d] in      *)
(* lowest terms with d >= 0; d = 0 encodes the IEEE specials that the code *)
(* produces by dividing by a zero summed weight: 0/0 is NaN, 1/0 is +inf   *)
(* and -1/0 is -inf.  Rounding error of the floating point arithmetic is   *)
(* not modelled.                                                           *)
(*                                                                         *)
(* Arrays.  An n-d array is a record [shape, v] with v the C-order         *)
(* flattening (what ndarray.flatten() returns).                            *)
(***************************************************************************)
EXTENDS Integers, Sequences, FiniteSets, TLC

\* ------------------------------------------------------------------------
\* Bounds of the model
\* ------------------------------------------------------------------------
\* Field cells take the values 0..MaxVal.
MaxVal == 1
\* Weights (scalar or per cell) take the values 0..MaxW.
MaxW == 2

\* With(v, F) is F(v): a value computed once and used under a name, as a local
\* variable of the code is.
With(v, F(_)) == F(v)

\* ------------------------------------------------------------------------
\* Exact arithmetic with the IEEE specials
\* ------------------------------------------------------------------------
Abs(x) == IF x < 0 THEN -x ELSE x
Sgn(x) == IF x < 0 THEN -1 ELSE IF x > 0 THEN 1 ELSE 0

RECURSIVE Gcd(_, _)
Gcd(a, b) == IF b = 0 THEN a ELSE Gcd(b, a % b)

\* The rational n/d in canonical form.
Rat(n, d) ==
    IF d = 0 THEN [n |-> Sgn(n), d |-> 0]
    ELSE LET Reduced(g) == [n |-> (Sgn(d) * n) \div g, d |-> Abs(d) \div g]
         IN  Reduced(Gcd(Abs(n), Abs(d)))

Int2Rat(x) == [n |-> x, d |-> 1]
Zero == Int2Rat(0)
One == Int2Rat(1)
NaN == [n |-> 0, d |-> 0]
IsNaN(a) == a.n = 0 /\ a.d = 0
IsInf(a) == a.n # 0 /\ a.d = 0
IsFinite(a) == a.d # 0

RAdd(a, b) ==
    IF IsNaN(a) \/ IsNaN(b) THEN NaN
    ELSE IF IsInf(a) /\ IsInf(b) THEN (IF a.n = b.n THEN a ELSE NaN)
    ELSE IF IsInf(a) THEN a
    ELSE IF IsInf(b) THEN b
    ELSE Rat(a.n * b.d + b.n * a.d, a.d * b.d)
RNeg(a) == [n |-> -a.n, d |-> a.d]
RSub(a, b) == RAdd(a, RNeg(b))
RMul(a, b) == Rat(a.n * b.n, a.d * b.d)
RDiv(a, b) ==
    IF IsNaN(a) \/ IsNaN(b) THEN NaN
    ELSE IF IsInf(b) THEN (IF IsInf(a) THEN NaN ELSE Zero)
    ELSE IF b.n = 0 THEN Rat(Sgn(a.n), 0)
    ELSE IF IsInf(a) THEN Rat(a.n * Sgn(b.n), 0)
    ELSE Rat(a.n * b.d, a.d * b.n)
\* a <= b and a < b for numbers that are not NaN (every comparison with NaN is false).
RLe(a, b) ==
    /\ ~IsNaN(a) /\ ~IsNaN(b)
    /\ IF IsInf(a) /\ IsInf(b) THEN a.n <= b.n
       ELSE IF IsInf(a) THEN a.n < 0
       ELSE IF IsInf(b) THEN b.n > 0
       ELSE a.n * b.d <= b.n * a.d
RLt(a, b) == RLe(a, b) /\ a # b

\* The exact square root of a perfect square (the coordinate sets of the model are
\* chosen so that every radial magnitude is an integer).
Sqrt(x) == CHOOSE k \in 0..x : k * k = x

\* ------------------------------------------------------------------------
\* Sequences and arrays
\* ------------------------------------------------------------------------
RECURSIVE Prod(_)
Prod(s) == IF s = <<>> THEN 1 ELSE Head(s) * Prod(Tail(s))

RECURSIVE RSum(_)
RSum(s) == IF s = <<>> THEN Zero ELSE RAdd(Head(s), RSum(Tail(s)))

IntsToRats(s) == [k \in 1..Len(s) |-> Int2Rat(s[k])]

\* np.min / np.max of a non-empty sequence of integers.
MinOf(s) == CHOOSE x \in {s[k] : k \in 1..Len(s)} : \A k \in 1..Len(s) : x <= s[k]
MaxOf(s) == CHOOSE x \in {s[k] : k \in 1..Len(s)} : \A k \in 1..Len(s) : x >= s[k]

\* The multi-index (0-based, one entry per axis) of the k-th (1-based) cell of an
\* array of the given shape, in C order.
Stride(shape, a) == Prod(SubSeq(shape, a + 1, Len(shape)))
AxisIndex(shape, k, a) == ((k - 1) \div Stride(shape, a)) % shape[a]

\* An array of real numbers: [shape, v].
Array(shape, v) == [shape |-> shape, v |-> v]

\* ------------------------------------------------------------------------
\* numpy primitives
\* ------------------------------------------------------------------------
\* np.digitize(x, bins) (right=False) for one value x against the edge sequence bins.
\* numpy accepts monotonically non-decreasing or non-increasing edges and raises
\* ValueError for any other sequence.
NonDecreasing(bins) == \A j \in 1..(Len(bins) - 1) : RLe(bins[j], bins[j + 1])
NonIncreasing(bins) == \A j \in 1..(Len(bins) - 1) : RLe(bins[j + 1], bins[j])
StrictlyIncreasing(bins) == \A j \in 1..(Len(bins) - 1) : RLt(bins[j], bins[j + 1])
Monotonic(bins) == NonDecreasing(bins) \/ NonIncreasing(bins)

\* np.digitize with right=True, where an edge belongs to the bin below it.
digitize_right(x, bins) == Cardinality({j \in 1..Len(bins) : RLt(bins[j], x)})

digitize(x, bins) ==
    IF NonDecreasing(bins)
    THEN Cardinality({j \in 1..Len(bins) : RLe(bins[j], x)})
    ELSE Cardinality({j \in 1..Len(bins) : RLt(x, bins[j])})

\* np.bincount(indx, weights=w, minlength=m + 2)[1:-1]: entry b (1..m) is the sum of
\* w over the cells whose index is b; the cells with index 0 or m + 1 are dropped.
RECURSIVE BinSum(_, _, _, _)
BinSum(indx, w, b, k) ==
    IF k = 0 THEN Zero
    ELSE IF indx[k] = b THEN RAdd(BinSum(indx, w, b, k - 1), w[k])
    ELSE BinSum(indx, w, b, k - 1)
bincount(indx, w, m) == [b \in 1..m |-> BinSum(indx, w, b, Len(indx))]

\* np.linspace(lo, hi, c + 1) for integers lo, hi.
linspace(lo, hi, c) ==
    IF c = 0 THEN <<Int2Rat(lo)>>
    ELSE [i \in 1..(c + 1) |-> Rat(lo * c + (i - 1) * (hi - lo), c)]

\* np.logspace(log10(lo), log10(hi), c + 1): the geometric sequence from lo to hi,
\* exact where every term is an integer.
RECURSIVE Pow(_, _)
Pow(x, e) == IF e = 0 THEN 1 ELSE x * Pow(x, e - 1)
HasRoot(x, c) == \E r \in 0..x : Pow(r, c) = x
Root(x, c) == CHOOSE r \in 0..x : Pow(r, c) = x
logspace(lo, hi, c) ==
    IF c = 0 THEN <<Int2Rat(lo)>>
    ELSE [i \in 1..(c + 1) |-> Int2Rat(Root(Pow(lo, c - (i - 1)) * Pow(hi, i - 1), c))]

\* ------------------------------------------------------------------------
\* _magnitude_grid and _getbins
\* ------------------------------------------------------------------------
\* _magnitude_grid(x) for a list x of per-axis coordinate vectors: the Euclidean norm
\* on the "ij" mesh of the vectors.
RECURSIVE SumSq(_, _, _, _)
SumSq(x, shape, k, a) ==
    IF a = 0 THEN 0
    ELSE LET Square(c) == c * c
         IN  Square(x[a][AxisIndex(shape, k, a) + 1]) + SumSq(x, shape, k, a - 1)
_magnitude_grid(x) ==
    LET shape == [a \in 1..Len(x) |-> Len(x[a])]
    IN  Array(shape, [k \in 1..Prod(shape) |-> Sqrt(SumSq(x, shape, k, Len(x)))])

\* np.max(coords, axis=a), as the set of its entries: for every cell k, the maximum
\* over the cells that differ from k along axis a only.
SameLine(shape, k, j, a) ==
    \A b \in 1..Len(shape) : b # a => AxisIndex(shape, k, b) = AxisIndex(shape, j, b)
MaxAlongAxis(coords, a) ==
    { MaxOf([j \in 1..Len(coords.v) |->
                IF SameLine(coords.shape, k, j, a) THEN coords.v[j] ELSE coords.v[k]])
      : k \in 1..Len(coords.v) }
\* The largest radial value of the whole grid.
max_overall(coords) == MaxOf(coords.v)
\* max_radius: the smallest of the per-axis maxima (lines 18-25; the except branch
\* flattens the same maxima when their shapes differ, with the same minimum).
max_radius(coords) ==
    LET Smallest(maxs) == CHOOSE x \in maxs : \A y \in maxs : x <= y
    IN  Smallest(UNION { MaxAlongAxis(coords, a) : a \in 1..Len(coords.shape) })

Positive(coords) == {coords.v[k] : k \in {j \in 1..Len(coords.v) : coords.v[j] > 0}}

\* bins is [iterable, count, edges]: a bin count (iterable = FALSE) or explicit edges.
\* Returns [err, bins]; err is "" or the name of the exception raised.
_getbins(bins, coords, log) ==
    IF bins.iterable THEN [err |-> "", bins |-> bins.edges]
    ELSE IF ~log
    THEN [err |-> "", bins |-> linspace(MinOf(coords.v), max_radius(coords), bins.count)]
    ELSE IF Positive(coords) = {}
    THEN [err |-> "ValueError", bins |-> <<>>]
    ELSE LET mn == CHOOSE x \in Positive(coords) : \A y \in Positive(coords) : x <= y
         IN  [err |-> "", bins |-> logspace(mn, max_radius(coords), bins.count)]

\* ------------------------------------------------------------------------
\* The cell-binning averager
\* ------------------------------------------------------------------------
\* weights is [scalar, c, shape, v]: a scalar c (np.isscalar) or an array [shape, v].
WAt(weights, k) == IF weights.scalar THEN weights.c ELSE weights.v[k]
Ones(m) == [b \in 1..m |-> One]

\* _get_binweights(coords, weights, bins, average, bin_ave, log_bins).
\* Returns [err, edges, indx, bins, sumweights], edges being the vector _getbins gave.
BinFail(err) ==
    [err |-> err, edges |-> <<>>, indx |-> <<>>, bins |-> <<>>, sumweights |-> <<>>]
\* Lines 211-242, given the edges and the digitized cells.
BinWeights(coords, weights, edges, indx, average, bin_ave) ==
    LET m == Len(edges) - 1
        ncell == Len(coords.v)
    IN  IF average \/ bin_ave
        THEN IF ~weights.scalar /\ coords.shape # weights.shape THEN BinFail("ValueError")
             ELSE With(IF weights.scalar
                       THEN bincount(indx, [k \in 1..ncell |-> One], m)
                       ELSE bincount(indx, IntsToRats(weights.v), m),
                       LAMBDA counted :
                  \* binweight is counted in both branches of lines 225-229
                  [err |-> "", edges |-> edges, indx |-> indx,
                   bins |-> IF bin_ave
                            THEN With(bincount(indx,
                                        [k \in 1..ncell |->
                                            Int2Rat(WAt(weights, k) * coords.v[k])], m),
                                      LAMBDA wr : [b \in 1..m |-> RDiv(wr[b], counted[b])])
                            ELSE edges,
                   sumweights |-> IF average THEN counted ELSE Ones(m)])
        ELSE [err |-> "", edges |-> edges, indx |-> indx, bins |-> edges,
              sumweights |-> Ones(m)]
_get_binweights(coords, weights, bins, average, bin_ave, log_bins) ==
    With(_getbins(bins, coords, log_bins), LAMBDA gb :
         IF gb.err # "" THEN BinFail(gb.err)
         ELSE IF ~Monotonic(gb.bins) THEN BinFail("ValueError")
         ELSE BinWeights(coords, weights, gb.bins,
                         [k \in 1..Len(coords.v) |-> digitize(Int2Rat(coords.v[k]), gb.bins)],
                         average, bin_ave))

\* _field_average(indx, field, weights, sumweights) for a field [shape, kind, re, im]:
\* kind is the dtype ("f" float, "i" integer, "c" complex), re and im the real and
\* imaginary parts of the cells in C order.  Returns [err, re, im], the real and
\* imaginary parts of rl + im.
Weighted(v, weights) == [k \in 1..Len(v) |-> RMul(v[k], Int2Rat(WAt(weights, k)))]
BinMean(indx, v, weights, sumweights) ==
    With(bincount(indx, Weighted(v, weights), Len(sumweights)),
         LAMBDA sum : [b \in 1..Len(sumweights) |-> RDiv(sum[b], sumweights[b])])
_field_average(indx, field, weights, sumweights) ==
    IF ~weights.scalar /\ field.shape # weights.shape
    THEN [err |-> "ValueError", re |-> <<>>, im |-> <<>>]
    ELSE IF Len(indx) # Len(field.re)
    THEN [err |-> "ValueError", re |-> <<>>, im |-> <<>>]
    ELSE [err |-> "",
          re |-> BinMean(indx, field.re, weights, sumweights),
          im |-> IF field.kind = "c" THEN BinMean(indx, field.im, weights, sumweights)
                 ELSE [b \in 1..Len(sumweights) |-> Zero]]

\* _field_variance(indx, field, average, weights, V1).  Returns [err, var].
\* Lines 503-509, given V2 and the per-bin sums of the weighted squared deviations.
VarianceOfSum(V1, V2, devsum) ==
    [b \in 1..Len(V1) |->
        RMul(RDiv(devsum[b], RSub(V1[b], RDiv(V2[b], V1[b]))),
             RDiv(V2[b], RMul(V1[b], V1[b])))]
SquaredDev(x, avg, w) == With(RSub(x, avg), LAMBDA d : RMul(RMul(d, d), Int2Rat(w)))
_field_variance(indx, field, average, weights, V1) ==
    IF field.kind = "c" THEN [err |-> "NotImplementedError", var |-> <<>>]
    ELSE With(<<Zero>> \o average \o <<Zero>>, LAMBDA padded :
         [err |-> "",
          var |-> VarianceOfSum(
                      V1,
                      IF ~weights.scalar
                      THEN bincount(indx, [k \in 1..Len(indx) |->
                                              Int2Rat(weights.v[k] * weights.v[k])], Len(V1))
                      ELSE V1,
                      bincount(indx,
                               [k \in 1..Len(indx) |->
                                   SquaredDev(field.re[k], padded[indx[k] + 1],
                                              WAt(weights, k))],
                               Len(V1)))])

\* ------------------------------------------------------------------------
\* The spherical sampler and the interpolated averager
\* ------------------------------------------------------------------------
\* The exact square root of a rational whose numerator and denominator are squares.
RSqrt(a) == [n |-> Sqrt(a.n), d |-> Sqrt(a.d)]
RHalf(a) == RDiv(a, Int2Rat(2))

\* Lines 169-172 and 677-680: the target radii are the midpoints of the edges,
\* geometric in log mode.
Midpoints(edges, log) ==
    [b \in 1..(Len(edges) - 1) |->
        IF log THEN RSqrt(RMul(edges[b], edges[b + 1]))
        ELSE RHalf(RAdd(edges[b], edges[b + 1]))]

\* A points generator is called as generator(bins, dims2avg) and returns radii r_n and
\* angles phi_n; _spherical2cartesian turns them into r_n * (direction of phi_n).  The
\* model keeps of a generator the set of directions it samples at every radius, among
\* the directions of the plane with rational sine and cosine:
\* regular_angular_generator samples the whole circle, above_mu_min_angular_generator
\* the directions with sin(phi) >= mu only (none at all when mu > 1).
Dir(x, y) == <<Rat(x, 5), Rat(y, 5)>>
CircleDirs == {Dir(5, 0), Dir(4, 3), Dir(3, 4), Dir(0, 5), Dir(-3, 4), Dir(-5, 0),
               Dir(0, -5), Dir(4, -3)}
GeneratorDirs(generator) ==
    CASE generator \in {"None", "regular_angular_generator"} -> CircleDirs
      [] generator = "above_mu_min" -> {d \in CircleDirs : RLe(Rat(4, 5), d[2])}
      [] generator = "above_mu_gt_1" -> {}

\* regular_angular_generator / above_mu_min_angular_generator followed by
\* _spherical2cartesian: the set of samples [r, x], r the radius (an entry of bins)
\* and x the Cartesian point.
GeneratedSamples(generator, bins) ==
    { [r |-> bins[b], x |-> <<RMul(bins[b], d[1]), RMul(bins[b], d[2])>>]
        : b \in 1..Len(bins), d \in GeneratorDirs(generator) }

\* weights.reshape(shape) succeeds when the sizes agree.
CanReshape(weights, shape) == weights.scalar \/ Prod(weights.shape) = Prod(shape)

\* The box filter with the bounds excluded.
InBoxOpen(coords, x) ==
    \A a \in 1..Len(coords) :
        /\ RLt(Int2Rat(MinOf(coords[a])), x[a])
        /\ RLt(x[a], Int2Rat(MaxOf(coords[a])))

\* Lines 403-411: the sample lies in the bounding box of the coordinate vectors.
InBox(coords, x) ==
    \A a \in 1..Len(coords) :
        /\ RLe(Int2Rat(MinOf(coords[a])), x[a])
        /\ RLe(x[a], Int2Rat(MaxOf(coords[a])))

\* _sample_coords_interpolate(coords, bins, weights, interp_points_generator) for a
\* list coords of per-axis vectors.  Returns [err, samples]: the samples that are kept,
\* each with its radius (sample_coords and r_n of the code).
_sample_coords_interpolate(coords, bins, weights, interp_points_generator) ==
    IF ~CanReshape(weights, [a \in 1..Len(coords) |-> Len(coords[a])])
    THEN [err |-> "ValueError", samples |-> {}]
    ELSE With({ s \in IF Len(coords) > 1
                      THEN GeneratedSamples(interp_points_generator, bins)
                      ELSE { [r |-> bins[b], x |-> <<bins[b]>>] : b \in 1..Len(bins) }
                : InBox(coords, s.x) },
              LAMBDA kept : IF kept = {} THEN [err |-> "ValueError", samples |-> {}]
                            ELSE [err |-> "", samples |-> kept])

\* RegularGridInterpolator, linear: the cell of the grid vector g that holds x, and
\* the interpolation of the values F (NaN where the weight is zero) of field on the
\* mesh of coords at the point x.  A NaN corner gives NaN whatever its coefficient.
StrictlyAscending(g) == \A j \in 1..(Len(g) - 1) : g[j] < g[j + 1]
CellOf(g, x) ==
    LET Clip(below) ==
            IF below < 1 THEN 1 ELSE IF below > Len(g) - 1 THEN Len(g) - 1 ELSE below
    IN  Clip(Cardinality({j \in 1..Len(g) : RLt(Int2Rat(g[j]), x)}))
Frac(g, x) ==
    LET T(i) == RDiv(RSub(x, Int2Rat(g[i])), Int2Rat(g[i + 1] - g[i]))
    IN  T(CellOf(g, x))
Corners(dim) == IF dim = 1 THEN {<<0>>, <<1>>} ELSE {<<0, 0>>, <<0, 1>>, <<1, 0>>, <<1, 1>>}
FlatIndex(shape, idx) ==
    IF Len(shape) = 1 THEN idx[1] ELSE (idx[1] - 1) * shape[2] + idx[2]
\* The sum of the function f over the set S of its arguments.
RECURSIVE SumOver(_, _)
SumOver(f, S) ==
    IF S = {} THEN Zero
    ELSE With(CHOOSE e \in S : TRUE, LAMBDA e : RAdd(f[e], SumOver(f, S \ {e})))
Coef(coords, x, c) ==
    LET W(a) == With(Frac(coords[a], x[a]),
                     LAMBDA t : IF c[a] = 1 THEN t ELSE RSub(One, t))
    IN  IF Len(coords) = 1 THEN W(1) ELSE RMul(W(1), W(2))
Interpolate(coords, shape, F, x) ==
    SumOver([c \in Corners(Len(coords)) |->
                RMul(Coef(coords, x, c),
                     F[FlatIndex(shape, [a \in 1..Len(coords) |->
                                            CellOf(coords[a], x[a]) + c[a]])])],
            Corners(Len(coords)))

\* np.nanmean of the values val (a function on the samples) over the samples in S;
\* NaN for no valid sample.
NanMean(S, val) ==
    With({s \in S : ~IsNaN(val[s])},
         LAMBDA valid : RDiv(SumOver(val, valid), Int2Rat(Cardinality(valid))))

\* The distinct values of a set of rationals in increasing order (np.unique).
RECURSIVE SortRats(_)
SortRats(S) ==
    IF S = {} THEN <<>>
    ELSE With(CHOOSE x \in S : \A y \in S : RLe(x, y),
              LAMBDA lo : <<lo>> \o SortRats(S \ {lo}))

\* Lines 432-433: field * weights with NaN where the weight is zero.
WeightedOrNaN(v, weights) ==
    [k \in 1..Len(v) |-> IF WAt(weights, k) = 0 THEN NaN
                         ELSE RMul(v[k], Int2Rat(WAt(weights, k)))]
\* Line 447: the interpolated values at the samples, as a function on them.
Interped(coords, shape, F, samples) ==
    [s \in samples |-> Interpolate(coords, shape, F, s.x)]
\* Line 451: the mean over the samples of each radius of bins.
ShellMeans(bins, samples, val) ==
    [b \in 1..Len(bins) |-> NanMean({s \in samples : s.r = bins[b]}, val)]
\* Line 452: np.unique(r_n[~isnan], return_counts=True)[1].
ValidCounts(valid) ==
    With(SortRats({s.r : s \in valid}),
         LAMBDA radii : [j \in 1..Len(radii) |->
                            Int2Rat(Cardinality({s \in valid : s.r = radii[j]}))])

\* _field_average_interpolate(coords, field, bins, weights, sample_coords, r_n).
\* Returns [err, warned, re, im, sumweights].  The rescaling of lines 435-447,
\* (field - mean) / std before and * std + mean after the interpolation, cancels in
\* exact arithmetic and leaves an all-NaN field all-NaN.
InterpFail ==
    [err |-> "ValueError", warned |-> FALSE, re |-> <<>>, im |-> <<>>, sumweights |-> <<>>]
_field_average_interpolate(coords, field, bins, weights, samples) ==
    IF ~CanReshape(weights, field.shape) THEN InterpFail
    \* field[weights == 0] = np.nan on an integer array: NaN has no integer value
    ELSE IF field.kind = "i" THEN InterpFail
    ELSE IF \E a \in 1..Len(coords) : ~StrictlyAscending(coords[a]) THEN InterpFail
    ELSE With(Interped(coords, field.shape, WeightedOrNaN(field.re, weights), samples),
              LAMBDA re :
         With({s \in samples : ~IsNaN(re[s])}, LAMBDA valid :
              [err |-> "",
               warned |-> valid = {},
               re |-> ShellMeans(bins, samples, re),
               im |-> IF field.kind = "c"
                      THEN ShellMeans(bins, samples,
                                      Interped(coords, field.shape,
                                               WeightedOrNaN(field.im, weights), samples))
                      ELSE [b \in 1..Len(bins) |-> Zero],
               sumweights |-> ValidCounts(valid)]))

\* ------------------------------------------------------------------------
\* State
\* ------------------------------------------------------------------------
VARIABLES
    op,          \* the public operation the caller invoked
    call,        \* the arguments the caller passed to it
    gp,          \* get_power: its local variables
    result,      \* get_power: what it returns or raises
    args,        \* the arguments of the running angular_average(_nd) call
    pc,          \* the position of the call
    n,           \* angular_average_nd: the number of leading axes averaged
    coords_grid, \* the radial-magnitude grid
    edges,       \* the bin edges _getbins returned
    indx,        \* the per-cell bin index of np.digitize
    samples,     \* the sample points kept by _sample_coords_interpolate, with their radii
    bins,        \* the returned bin coordinates
    sumweights,  \* the per-bin summed weight
    res,         \* the averaged field: [shape, re, im]
    var,         \* the variance: [shape, v]
    col,         \* angular_average_nd: the next column of the loop (0-based)
    warnings,    \* the messages passed to warnings.warn so far
    outcome      \* what the call handed to its caller: a return value or an exception

vars == <<op, call, gp, result, args, pc, n, coords_grid, edges, indx, samples, bins, sumweights,
          res, var, col, warnings, outcome>>

EmptyBinWarning == "One or more radial bins had no cells within it."
InterpWarning == "Interpolator returned all NaNs."

NoArray == [shape |-> <<>>, v |-> <<>>]
NoRes == [shape |-> <<>>, re |-> <<>>, im |-> <<>>]
NoPower == [state |-> "none"]
NoOutcome == [kind |-> "none", exc |-> "", values |-> NoRes, bins |-> <<>>,
              ret_var |-> FALSE, var |-> NoArray,
              ret_sumweights |-> FALSE, sumweights |-> <<>>]
Raise(exc) == [NoOutcome EXCEPT !.kind = "raise", !.exc = exc]
\* The tuple (res, bins[, var][, sumweights]).
Return(values, bs, gv, v, rs, sw) ==
    [kind |-> "return", exc |-> "", values |-> values, bins |-> bs,
     ret_var |-> gv, var |-> IF gv THEN v ELSE NoArray,
     ret_sumweights |-> rs, sumweights |-> IF rs THEN sw ELSE <<>>]

\* len(coords) and coords used as an array.  coords is [ndim, rows]: a list of 1-D
\* vectors (ndim = 0) or an array of ndim 1 or 2 given by its rows.
PyLen(coords) == IF coords.ndim = 1 THEN Len(coords.rows[1]) ELSE Len(coords.rows)
RECURSIVE Concat(_)
Concat(rows) == IF rows = <<>> THEN <<>> ELSE Head(rows) \o Concat(Tail(rows))
AsArray(coords) ==
    IF coords.ndim = 1 THEN Array(<<Len(coords.rows[1])>>, coords.rows[1])
    ELSE Array(<<Len(coords.rows), Len(coords.rows[1])>>, Concat(coords.rows))
\* The entries of coords when it is iterated as a list of per-axis vectors.
AsList(coords) ==
    IF coords.ndim = 1 THEN [k \in 1..Len(coords.rows[1]) |-> <<coords.rows[1][k]>>]
    ELSE coords.rows

\* ------------------------------------------------------------------------
\* angular_average
\* ------------------------------------------------------------------------
\* angular_average(field, coords, bins, weights, ...) for the argument record a.
\* Returns the outcome of the call with the warnings it issued and its local values
\* [outcome, warnings, coords_grid, edges, indx, samples, bins, sumweights, res, var].
Locals(o, w, grid, e, ix, sm, bs, sw, rs, v) ==
    [outcome |-> o, warnings |-> w, coords_grid |-> grid, edges |-> e, indx |-> ix,
     samples |-> sm, bins |-> bs, sumweights |-> sw, res |-> rs, var |-> v]
\* The call raises exc with the magnitude grid built and the warnings w issued.
Raised(exc, w, grid) ==
    Locals(Raise(exc), w, grid, <<>>, <<>>, {}, <<>>, <<>>, NoRes, NoArray)
Vector(re, im) == [shape |-> <<Len(re)>>, re |-> re, im |-> im]

\* Lines 180-195, for the locals r the averaging left.
AAVariance(a, r) ==
    IF ~a.get_variance
    THEN [r EXCEPT !.outcome = Return(r.res, r.bins, FALSE, NoArray,
                                      a.return_sumweights, r.sumweights)]
    ELSE IF a.interpolation_method # "None"
    THEN [r EXCEPT !.outcome = Raise("NotImplementedError")]
    ELSE With(_field_variance(r.indx, a.field, r.res.re, a.weights, r.sumweights),
              LAMBDA fv :
         IF fv.err # "" THEN [r EXCEPT !.outcome = Raise(fv.err)]
         ELSE [r EXCEPT !.var = Array(<<Len(fv.var)>>, fv.var),
                        !.outcome = Return(r.res, r.bins, TRUE,
                                           Array(<<Len(fv.var)>>, fv.var),
                                           a.return_sumweights, r.sumweights)])

\* Lines 157-166.
EmptyBin(sw) ==
    IF \E b \in 1..Len(sw) : sw[b] = Zero THEN {EmptyBinWarning} ELSE {}
AABinning(a, grid) ==
    With(_get_binweights(grid, a.weights, a.bins, a.average, a.bin_ave, a.log_bins),
         LAMBDA bw :
    IF bw.err # "" THEN Raised(bw.err, {}, grid)
    ELSE With(_field_average(bw.indx, a.field, a.weights, bw.sumweights), LAMBDA fa :
         IF fa.err # "" THEN Raised(fa.err, EmptyBin(bw.sumweights), grid)
         ELSE AAVariance(a, Locals(NoOutcome, EmptyBin(bw.sumweights), grid, bw.edges,
                                   bw.indx, {}, bw.bins, bw.sumweights,
                                   Vector(fa.re, fa.im), NoArray))))

\* Lines 167-179.
AAInterpolation(a, grid) ==
    With(_getbins(a.bins, grid, a.log_bins), LAMBDA gb :
    IF gb.err # "" THEN Raised(gb.err, {}, grid)
    ELSE With(Midpoints(gb.bins, a.log_bins), LAMBDA mids :
         With(_sample_coords_interpolate(AsList(a.coords), mids, a.weights,
                                         a.interp_points_generator), LAMBDA sc :
         IF sc.err # "" THEN Raised(sc.err, {}, grid)
         ELSE With(_field_average_interpolate(AsList(a.coords), a.field, mids, a.weights,
                                              sc.samples), LAMBDA fi :
              IF fi.err # "" THEN Raised(fi.err, {}, grid)
              ELSE AAVariance(a, Locals(NoOutcome,
                                        IF fi.warned THEN {InterpWarning} ELSE {},
                                        grid, gb.bins, <<>>, sc.samples, mids,
                                        fi.sumweights, Vector(fi.re, fi.im), NoArray))))))

angular_average(a) ==
    \* lines 144-156
    IF a.interpolation_method \notin {"None", "linear"}
    THEN Raised("ValueError", {}, NoArray)
    ELSE IF PyLen(a.coords) # Len(a.field.shape) /\ a.interpolation_method # "None"
    THEN Raised("ValueError", {}, NoArray)
    \* a list has no flatten()
    ELSE IF PyLen(a.coords) # Len(a.field.shape) /\ a.coords.ndim = 0
    THEN Raised("AttributeError", {}, NoArray)
    ELSE With(IF PyLen(a.coords) = Len(a.field.shape)
              THEN _magnitude_grid(AsList(a.coords)) ELSE AsArray(a.coords),
              LAMBDA grid : IF a.interpolation_method = "None" THEN AABinning(a, grid)
                            ELSE AAInterpolation(a, grid))

\* The call returns to its caller: the caller of the public operation, or get_power.
Finish(o) ==
    /\ outcome' = o
    /\ pc' = IF op = "get_power" THEN "gp_return" ELSE "done"

\* The cells of the product stored into the array of the argument itself, as
\* field *= weights would.
FieldArgumentInPlace(field, weights) ==
    [field EXCEPT !.re = WeightedOrNaN(field.re, weights)]
\* Lines 432-433: field = field * weights binds the local name to a new array, and
\* field[weights == 0] = np.nan stores into that array.  The cells of the array the
\* caller passed, after the two statements.
FieldArgumentAfter(field, weights) == field
\* The call got as far as line 432.
Interpolated(a, r) ==
    /\ a.interpolation_method = "linear"
    /\ r.samples # {}
    /\ CanReshape(a.weights, a.field.shape)

\* A call of angular_average, by the caller or by angular_average_nd (line 641), whose
\* field is then the array of the caller; get_power passes an array of its own.
AA_Call ==
    /\ pc = "angular_average"
    /\ \E r \in {angular_average(args)} :
           /\ call' = IF op # "get_power" /\ Interpolated(args, r)
                      THEN [call EXCEPT !.field = FieldArgumentAfter(args.field, args.weights)]
                      ELSE call
           /\ coords_grid' = r.coords_grid
           /\ edges' = r.edges
           /\ indx' = r.indx
           /\ samples' = r.samples
           /\ bins' = r.bins
           /\ sumweights' = r.sumweights
           /\ res' = r.res
           /\ var' = r.var
           /\ warnings' = warnings \cup r.warnings
           /\ Finish(r.outcome)
    /\ UNCHANGED <<op, gp, result, args, n, col>>

\* ------------------------------------------------------------------------
\* angular_average_nd
\* ------------------------------------------------------------------------
\* Python slices: s[:k] and s[k:].
Take(s, k) == SubSeq(s, 1, IF k < Len(s) THEN k ELSE Len(s))
Drop(s, k) == SubSeq(s, k + 1, Len(s))

\* Lines 634-635: the generator defaults to regular_angular_generator when
\* interpolating.
DefaultGenerator(a) ==
    IF a.interpolation_method # "None" /\ a.interp_points_generator = "None"
    THEN "regular_angular_generator"
    ELSE a.interp_points_generator

\* The call of lines 641-653 with average and bin_ave in each other's position.
DelegatedArgsSwapped(a) ==
    [field |-> a.field, coords |-> a.coords, bins |-> a.bins, n |-> a.n,
     weights |-> a.weights, average |-> a.bin_ave, bin_ave |-> a.average,
     get_variance |-> a.get_variance, log_bins |-> a.log_bins,
     interpolation_method |-> a.interpolation_method,
     interp_points_generator |-> DefaultGenerator(a),
     return_sumweights |-> a.return_sumweights]

\* Lines 641-653: the arguments angular_average is called with; the first seven are
\* passed by position (field, coords, bins, weights, average, bin_ave, get_variance).
DelegatedArgs(a) ==
    [field |-> a.field, coords |-> a.coords, bins |-> a.bins, n |-> a.n,
     weights |-> a.weights, average |-> a.average, bin_ave |-> a.bin_ave,
     get_variance |-> a.get_variance, log_bins |-> a.log_bins,
     interpolation_method |-> a.interpolation_method,
     interp_points_generator |-> DefaultGenerator(a),
     return_sumweights |-> a.return_sumweights]

\* Lines 628-653: n defaults to len(coords) (args.n = 0 stands for None); a call that
\* averages every axis is handed to angular_average.
ND_Entry ==
    /\ pc = "nd_entry"
    /\ LET nn == IF args.n = 0 THEN PyLen(args.coords) ELSE args.n
       IN  /\ n' = nn
           /\ IF PyLen(args.coords) # Len(args.field.shape)
              THEN Finish(Raise("ValueError")) /\ UNCHANGED args
              ELSE IF args.interpolation_method \notin {"None", "linear"}
              THEN Finish(Raise("ValueError")) /\ UNCHANGED args
              ELSE /\ args' = IF nn = PyLen(args.coords) THEN DelegatedArgs(args)
                              ELSE [args EXCEPT !.interp_points_generator =
                                                    DefaultGenerator(args)]
                   /\ pc' = IF nn = PyLen(args.coords) THEN "angular_average" ELSE "nd_setup"
                   /\ UNCHANGED outcome
    /\ UNCHANGED <<op, call, gp, result, coords_grid, edges, indx, samples, bins, sumweights, res, var,
                   col, warnings>>

ZerosRes(rows, cols) ==
    [shape |-> <<rows, cols>>, re |-> [k \in 1..(rows * cols) |-> Zero],
     im |-> [k \in 1..(rows * cols) |-> Zero]]

\* Lines 655-684: the magnitude grid of the n averaged axes, the bin assignment (or
\* the target radii) shared by all columns, and the output arrays.
\* For n beyond the last axis field.shape[n:] is empty, n2 = np.prod(()) is the float
\* 1.0, and np.zeros((rows, n2)) raises TypeError (lines 669, 674 and 681).
ND_Allocate(rows) ==
    IF n > Len(args.field.shape)
    THEN Finish(Raise("TypeError")) /\ UNCHANGED <<res, var, col>>
    ELSE /\ res' = ZerosRes(rows, Prod(Drop(args.field.shape, n)))
         /\ var' = IF args.get_variance
                   THEN Array(<<rows, Prod(Drop(args.field.shape, n))>>,
                              [k \in 1..(rows * Prod(Drop(args.field.shape, n))) |-> Zero])
                   ELSE var
         /\ col' = 0
         /\ pc' = "nd_column"
         /\ UNCHANGED outcome
ND_Setup ==
    /\ pc = "nd_setup"
    /\ \E grid \in {_magnitude_grid(Take(AsList(args.coords), n))} :
           /\ coords_grid' = grid
           /\ IF args.interpolation_method = "None"
              THEN \E bw \in {_get_binweights(grid, args.weights, args.bins, args.average,
                                              args.bin_ave, args.log_bins)} :
                       IF bw.err # ""
                       THEN /\ Finish(Raise(bw.err))
                            /\ UNCHANGED <<edges, indx, bins, sumweights, res, var, col>>
                       ELSE /\ edges' = bw.edges
                            /\ indx' = bw.indx
                            /\ bins' = bw.bins
                            /\ sumweights' = bw.sumweights
                            /\ ND_Allocate(Len(bw.sumweights))
              ELSE \E gb \in {_getbins(args.bins, grid, args.log_bins)} :
                       IF gb.err # ""
                       THEN /\ Finish(Raise(gb.err))
                            /\ UNCHANGED <<edges, indx, bins, sumweights, res, var, col>>
                       ELSE /\ edges' = gb.bins
                            /\ bins' = Midpoints(gb.bins, args.log_bins)
                            /\ UNCHANGED <<indx, sumweights>>
                            /\ ND_Allocate(Len(gb.bins) - 1)
    /\ UNCHANGED <<op, call, gp, result, args, n, samples, warnings>>

\* A store into an array of the field's dtype (res and var are created with
\* dtype=field.dtype): a float stored into an integer array is truncated towards zero;
\* the conversion of NaN or of an infinity is undefined in C and gives nanint.
IntMinStandIn == -(2^20)
NanAsInt == {Zero, Int2Rat(IntMinStandIn)}
Cast(kind, x, nanint) ==
    IF kind # "i" THEN x
    ELSE IF ~IsFinite(x) THEN nanint
    ELSE Int2Rat(Sgn(x.n) * (Abs(x.n) \div x.d))

\* Column i (0-based) of field.reshape((n1, n2)), a 1-d array of n1 cells.
Column(field, n1, n2, i) ==
    [shape |-> <<n1>>, kind |-> field.kind,
     re |-> [k \in 1..n1 |-> field.re[(k - 1) * n2 + i + 1]],
     im |-> [k \in 1..n1 |-> field.im[(k - 1) * n2 + i + 1]]]
\* weights.flatten(), or the scalar itself (the AttributeError branch).
Flatten(weights) ==
    IF weights.scalar THEN weights ELSE [weights EXCEPT !.shape = <<Len(weights.v)>>]
\* a[:, i] = column, for a flattened array of cols columns.
SetColumn(flat, cols, i, column) ==
    [k \in 1..Len(flat) |-> IF (k - 1) % cols = i THEN column[((k - 1) \div cols) + 1]
                             ELSE flat[k]]

\* A vector stored into a column of an array of dtype kind.
CastAll(kind, v, nanint) == [b \in 1..Len(v) |-> Cast(kind, v[b], nanint)]

\* Lines 692-694: one column in the cell-binning path.
ND_BinColumn(fld, w) ==
    \E fa \in {_field_average(indx, fld, w, sumweights)} :
        IF fa.err # ""
        THEN Finish(Raise(fa.err)) /\ UNCHANGED <<res, var, col>>
        ELSE \E nanint \in NanAsInt :
             \E avg \in {CastAll(fld.kind, fa.re, nanint)} :
                 /\ res' = [res EXCEPT !.re = SetColumn(@, res.shape[2], col, avg),
                                       !.im = SetColumn(@, res.shape[2], col, fa.im)]
                 /\ IF ~args.get_variance
                    THEN col' = col + 1 /\ UNCHANGED <<var, pc, outcome>>
                    ELSE \E fv \in {_field_variance(indx, fld, avg, w, sumweights)} :
                             IF fv.err # ""
                             THEN Finish(Raise(fv.err)) /\ UNCHANGED <<var, col>>
                             ELSE /\ var' = [var EXCEPT !.v =
                                               SetColumn(@, res.shape[2], col,
                                                         CastAll(fld.kind, fv.var, nanint))]
                                  /\ col' = col + 1
                                  /\ UNCHANGED <<pc, outcome>>

\* Lines 696-706: one column in the interpolation path.
ND_InterpColumn(fld, w) ==
    \E sc \in {_sample_coords_interpolate(Take(AsList(args.coords), n), bins,
                                          args.weights, args.interp_points_generator)} :
        /\ samples' = sc.samples
        /\ IF sc.err # ""
           THEN Finish(Raise(sc.err)) /\ UNCHANGED <<res, col, sumweights, warnings>>
           ELSE \E fa \in {_field_average_interpolate(Take(AsList(args.coords), n), fld,
                                                      bins, w, sc.samples)} :
                    IF fa.err # ""
                    THEN Finish(Raise(fa.err))
                         /\ UNCHANGED <<res, col, sumweights, warnings>>
                    ELSE /\ warnings' = IF fa.warned THEN warnings \cup {InterpWarning}
                                        ELSE warnings
                         /\ res' = [res EXCEPT
                                      !.re = SetColumn(@, res.shape[2], col, fa.re),
                                      !.im = SetColumn(@, res.shape[2], col, fa.im)]
                         /\ sumweights' = fa.sumweights
                         /\ IF args.get_variance
                            THEN Finish(Raise("NotImplementedError")) /\ UNCHANGED col
                            ELSE col' = col + 1 /\ UNCHANGED <<pc, outcome>>

\* Lines 686-706: one pass of the loop over the columns of field.reshape((n1, n2)).
ND_Column ==
    /\ pc = "nd_column"
    /\ col < res.shape[2]
    /\ IF args.interpolation_method = "None"
       THEN /\ ND_BinColumn(Column(args.field, Prod(Take(args.field.shape, n)),
                                   res.shape[2], col),
                            Flatten(args.weights))
            /\ UNCHANGED <<sumweights, samples, warnings>>
       ELSE /\ ND_InterpColumn([Column(args.field, Prod(Take(args.field.shape, n)),
                                       res.shape[2], col)
                                   EXCEPT !.shape = Take(args.field.shape, n)],
                               Flatten(args.weights))
            /\ UNCHANGED var
    /\ UNCHANGED <<op, call, gp, result, args, n, coords_grid, edges, indx, bins>>

\* Lines 708-722: res is reshaped to (len(sumweights),) + field.shape[n:]; var is
\* returned as it is.
ND_Return ==
    /\ pc = "nd_column"
    /\ col = res.shape[2]
    /\ LET shape == <<Len(sumweights)>> \o Drop(args.field.shape, n)
       IN  IF Prod(shape) # Len(res.re)
           THEN Finish(Raise("ValueError"))
           ELSE Finish(Return([res EXCEPT !.shape = shape], bins, args.get_variance, var,
                               args.return_sumweights, sumweights))
    /\ UNCHANGED <<op, call, gp, result, args, n, coords_grid, edges, indx, samples, bins,
                   sumweights, res, var, col, warnings>>

\* ------------------------------------------------------------------------
\* The calls considered
\* ------------------------------------------------------------------------
Cells(shape) == 1..Prod(shape)
\* Fields of a shape and dtype: every assignment of 0..MaxVal to the cells; a complex
\* field has the imaginary parts MaxVal - re.
Fields(shape, kinds) ==
    { [shape |-> shape, kind |-> kd,
       re |-> [k \in Cells(shape) |-> Int2Rat(f[k])],
       im |-> [k \in Cells(shape) |-> IF kd = "c" THEN Int2Rat(MaxVal - f[k]) ELSE Zero]]
      : kd \in kinds, f \in [Cells(shape) -> 0..MaxVal] }

ScalarW(c) == [scalar |-> TRUE, c |-> c, shape |-> <<>>, v |-> <<>>]
ArrayW(shape, v) == [scalar |-> FALSE, c |-> 0, shape |-> shape, v |-> v]
\* Weights for a grid of a shape: the scalars 1..MaxW, the constant arrays of 0 and of
\* MaxW, the array that cycles through 1, .., MaxW, 0, and an array of another shape.
ConstW(shape, c) == ArrayW(shape, [k \in Cells(shape) |-> c])
CycleW(shape) == ArrayW(shape, [k \in Cells(shape) |-> k % (MaxW + 1)])
WrongShapeW(shape) == ArrayW(<<Prod(shape) + 1>>, [k \in 1..(Prod(shape) + 1) |-> 1])
Weights(shape) ==
    {ScalarW(c) : c \in 1..MaxW}
    \cup {ConstW(shape, 0), ConstW(shape, MaxW), CycleW(shape), WrongShapeW(shape)}

CoordList(rows) == [ndim |-> 0, rows |-> rows]
Coords1 == {CoordList(<<c>>) : c \in {<<0, 3, 4>>, <<1, 2, 4>>}}
Coords2 == {CoordList(<<<<0, 3>>, <<0, 4>>>>)}

Edges(e) == [iterable |-> TRUE, count |-> 0, edges |-> IntsToRats(e)]
Count(c) == [iterable |-> FALSE, count |-> c, edges |-> <<>>]
EdgeLists == {<<0, 3, 4>>, <<3, 4>>, <<0, 6>>, <<1, 2, 6>>}
BinSpecs == {Edges(e) : e \in EdgeLists} \cup {Count(c) : c \in 1..2}

\* log_bins is drawn with a bin count whose log-spaced edges are integers (see
\* logspace), and in the interpolation path with edges whose geometric midpoints are
\* rational (see Midpoints).
IsSquare(x) == \E r \in 0..x : r * r = x
LogExact(grid, bs, interp) ==
    LET gb == _getbins(bs, grid, TRUE)
    IN  /\ Positive(grid) # {}
        /\ bs.iterable => interp
        /\ ~bs.iterable =>
             LET mn == CHOOSE x \in Positive(grid) : \A y \in Positive(grid) : x <= y
             IN  \A i \in 0..bs.count :
                    HasRoot(Pow(mn, bs.count - i) * Pow(max_radius(grid), i), bs.count)
        /\ interp => \A b \in 1..(Len(gb.bins) - 1) :
                        LET p == RMul(gb.bins[b], gb.bins[b + 1])
                        IN  p.n >= 0 /\ IsSquare(p.n) /\ IsSquare(p.d)

Call(f, c, b, nn, w, av, ba, gv, lg, im, gen, rs) ==
    [field |-> f, coords |-> c, bins |-> b, n |-> nn, weights |-> w,
     average |-> av, bin_ave |-> ba, get_variance |-> gv, log_bins |-> lg,
     interpolation_method |-> im, interp_points_generator |-> gen,
     return_sumweights |-> rs]

\* The averaged grid of a call: the magnitudes of the first n (or all) axes.
CallGrid(a) ==
    _magnitude_grid(Take(a.coords.rows, IF a.n = 0 THEN Len(a.coords.rows) ELSE a.n))
LogOk(a) ==
    a.log_bins => LogExact(CallGrid(a), a.bins, a.interpolation_method # "None")

\* Edge lists for the interpolation path: their midpoints are the target radii, some
\* of them beyond the largest coordinate.
InterpEdgeLists == {<<0, 3, 4>>, <<0, 6>>, <<0, 4, 6>>, <<6, 8>>}
Generators == {"None", "above_mu_min", "above_mu_gt_1"}

\* angular_average, cell-binning path: a 1-d field of three cells, or a 2 x 2 field.
AABinCall ==
    \/ \E f \in Fields(<<3>>, {"f"}), c \in Coords1, b \in BinSpecs, w \in Weights(<<3>>),
          av \in BOOLEAN, ba \in BOOLEAN, gv \in BOOLEAN, lg \in BOOLEAN, rs \in BOOLEAN :
          call = Call(f, c, b, 0, w, av, ba, gv, lg, "None", "None", rs)
    \/ \E f \in Fields(<<3>>, {"c"}), c \in Coords1, e \in {<<0, 6>>, <<1, 2, 6>>},
          w \in {ScalarW(1), CycleW(<<3>>), WrongShapeW(<<3>>)}, av \in BOOLEAN,
          gv \in BOOLEAN :
          call = Call(f, c, Edges(e), 0, w, av, TRUE, gv, FALSE, "None", "None", TRUE)
    \/ \E f \in Fields(<<2, 2>>, {"f"}), c \in Coords2, b \in BinSpecs,
          w \in {ScalarW(1), CycleW(<<2, 2>>)}, av \in BOOLEAN, ba \in BOOLEAN,
          gv \in BOOLEAN, rs \in BOOLEAN :
          call = Call(f, c, b, 0, w, av, ba, gv, FALSE, "None", "None", rs)

\* angular_average, interpolation path.
AAInterpCall ==
    \/ \E f \in Fields(<<3>>, {"f", "c"}), c \in Coords1, e \in InterpEdgeLists,
          w \in {ScalarW(1), CycleW(<<3>>), WrongShapeW(<<3>>)}, gv \in BOOLEAN,
          im \in {"linear", "cubic"}, rs \in BOOLEAN :
          call = Call(f, c, Edges(e), 0, w, TRUE, TRUE, gv, FALSE, im, "None", rs)
    \/ \E f \in Fields(<<2, 2>>, {"f"}), c \in Coords2, e \in InterpEdgeLists,
          w \in {ScalarW(1), CycleW(<<2, 2>>)}, gv \in BOOLEAN, gen \in Generators,
          rs \in BOOLEAN :
          call = Call(f, c, Edges(e), 0, w, TRUE, TRUE, gv, FALSE, "linear", gen, rs)

\* angular_average on grids that are not cubes (2 x 3 and 1 x 3), with bin counts from
\* 0 on, and on a line of three cells with explicit edges that repeat, decrease or go
\* up and down.
RampFields(shape) ==
    { [shape |-> shape, kind |-> "f",
       re |-> [k \in Cells(shape) |-> Int2Rat((k * c) % (MaxVal + 1))],
       im |-> [k \in Cells(shape) |-> Zero]] : c \in 0..1 }
GridCoords == {CoordList(<<<<0, 3>>, <<-4, 0, 4>>>>), CoordList(<<<<0>>, <<1, 2, 4>>>>)}
OddEdgeLists == {<<0, 3, 3>>, <<4, 3, 0>>, <<0, 4, 3>>}
AAGridCall ==
    \/ \E c \in GridCoords, b \in {Count(k) : k \in 0..2} \cup {Edges(<<0, 3, 4>>)},
          av \in BOOLEAN, ba \in BOOLEAN, lg \in BOOLEAN :
       \E f \in RampFields(<<Len(c.rows[1]), Len(c.rows[2])>>) :
          call = Call(f, c, b, 0, ScalarW(1), av, ba, FALSE, lg, "None", "None", TRUE)
    \/ \E f \in Fields(<<3>>, {"f"}), c \in Coords1,
          b \in {Edges(e) : e \in OddEdgeLists} \cup {Count(0)},
          w \in {ScalarW(1), CycleW(<<3>>)}, ba \in BOOLEAN, im \in {"None", "linear"} :
          call = Call(f, c, b, 0, w, TRUE, ba, FALSE, FALSE, im, "None", TRUE)

\* angular_average on a 2 x 2 field with a weights array of the four cells laid out
\* in one row: the size of the field, another shape.
FlatW(shape) == ArrayW(<<Prod(shape)>>, [k \in Cells(shape) |-> 1 + (k % MaxW)])
AAFlatWeightsCall ==
    \E f \in Fields(<<2, 2>>, {"f"}), c \in Coords2, e \in {<<0, 6>>, <<0, 3, 4>>},
       av \in BOOLEAN, ba \in BOOLEAN, im \in {"None", "linear"} :
       call = Call(f, c, Edges(e), 0, FlatW(<<2, 2>>), av, ba, FALSE, FALSE, im, "None",
                   TRUE)

\* angular_average with coords an array of radial magnitudes of the shape of the
\* field: three cells in a line, one row of three cells, and 2 x 2 cells.
MagnitudeArrays ==
    {[ndim |-> 1, rows |-> <<<<0, 3, 4>>>>], [ndim |-> 2, rows |-> <<<<0, 3, 4>>>>],
     [ndim |-> 2, rows |-> <<<<0, 3>>, <<0, 4>>>>]}
AAMagnitudeCall ==
    \E c \in MagnitudeArrays, e \in {<<0, 6>>, <<0, 3, 6>>, <<0, 4, 5>>}, av \in BOOLEAN,
       ba \in BOOLEAN, rs \in BOOLEAN :
    \E f \in RampFields(AsArray(c).shape) :
       call = Call(f, c, Edges(e), 0, ScalarW(1), av, ba, FALSE, FALSE, "None", "None", rs)

\* angular_average_nd on a 2 x 2 field: n = 1 averages the first axis only, n = 2 and
\* n = None (0) all axes.
NDWeights == {ScalarW(1), ScalarW(MaxW), CycleW(<<2>>), CycleW(<<2, 2>>)}
NDBinSpecs == {Edges(<<0, 3, 4>>), Edges(<<0, 6>>), Edges(<<1, 2, 6>>), Count(2)}
NDCall ==
    \/ \E f \in Fields(<<2, 2>>, {"f", "i"}), c \in Coords2, b \in NDBinSpecs, nn \in 0..2,
          w \in NDWeights, av \in BOOLEAN, ba \in BOOLEAN, gv \in BOOLEAN :
          call = Call(f, c, b, nn, w, av, ba, gv, FALSE, "None", "None", TRUE)
    \/ \E f \in Fields(<<2, 2>>, {"c"}), c \in Coords2, nn \in 0..2, gv \in BOOLEAN :
          call = Call(f, c, Edges(<<0, 6>>), nn, ScalarW(1), TRUE, TRUE, gv, FALSE,
                      "None", "None", TRUE)
    \/ \E f \in Fields(<<2, 2>>, {"f"}), c \in Coords2, e \in {<<0, 6>>, <<6, 8>>},
          nn \in 0..2,
          w \in {ScalarW(1), CycleW(<<2>>), ConstW(<<2>>, 0), ConstW(<<2, 2>>, 0)},
          gv \in BOOLEAN, im \in {"linear", "cubic"}, gen \in {"None", "above_mu_min"} :
          call = Call(f, c, Edges(e), nn, w, TRUE, TRUE, gv, FALSE, im, gen, TRUE)
    \* more axes than the field has
    \/ \E f \in RampFields(<<2, 2>>), c \in Coords2, b \in {Edges(<<0, 6>>), Count(2)},
          w \in {ScalarW(1), CycleW(<<2>>)}, gv \in BOOLEAN, im \in {"None", "linear"} :
          call = Call(f, c, b, 3, w, TRUE, TRUE, gv, FALSE, im, "None", TRUE)
    \* a field with two axes left un-averaged
    \/ \E f \in RampFields(<<2, 1, 2>>), b \in {Edges(<<0, 6>>), Count(2)}, nn \in 1..2,
          ba \in BOOLEAN, gv \in BOOLEAN, rs \in BOOLEAN :
          call = Call(f, CoordList(<<<<0, 3>>, <<0>>, <<0, 4>>>>), b, nn, ScalarW(1),
                      TRUE, ba, gv, FALSE, "None", "None", rs)

InitLocals ==
    /\ gp = NoPower
    /\ result = NoOutcome
    /\ n = 0
    /\ coords_grid = NoArray
    /\ edges = <<>>
    /\ indx = <<>>
    /\ samples = {}
    /\ bins = <<>>
    /\ sumweights = <<>>
    /\ res = NoRes
    /\ var = NoArray
    /\ col = 0
    /\ warnings = {}
    /\ outcome = NoOutcome

\* Spec: the caller invokes angular_average.
Init ==
    /\ op = "angular_average"
    /\ (AABinCall \/ AAInterpCall \/ AAGridCall \/ AAFlatWeightsCall \/ AAMagnitudeCall)
    /\ LogOk(call)
    /\ args = call
    /\ pc = "angular_average"
    /\ InitLocals

Next == AA_Call

Spec == Init /\ [][Next]_vars

\* SpecND: the caller invokes angular_average_nd.
InitND ==
    /\ op = "angular_average_nd"
    /\ NDCall
    /\ args = call
    /\ pc = "nd_entry"
    /\ InitLocals

NextND == ND_Entry \/ ND_Setup \/ ND_Column \/ ND_Return \/ AA_Call

SpecND == InitND /\ [][NextND]_vars

\* ------------------------------------------------------------------------
\* get_power
\* ------------------------------------------------------------------------
\* The arguments of get_power are the record
\*   [particles, shape, deltax2, N, boxlength, remove_shotnoise, vol_normalised_power,
\*    res_ndim, bins, ignore_zero_mode, k_weights, bin_ave, get_variance, log_bins,
\*    return_sumweights]
\* particles says that N is given; shape is deltax.shape, the grid of a density field
\* or (number of particles, dimensions) of a sample; deltax2 is [given, shape];
\* boxlength is a scalar; res_ndim = 0 stands for None; bins is a BinSpec or NoBins;
\* k_weights is a scalar or an array of the shape of kmag.
\* The calls considered pass no prefactor_fnc, no callable k_weights and no
\* interpolation_method.
NoBins == [iterable |-> FALSE, count |-> -1, edges |-> <<>>]
NoSecond == [given |-> FALSE, shape |-> <<>>]
Second(shape) == [given |-> TRUE, shape |-> shape]

\* discretize_N, lines 873-897: the checks and the values it returns besides the
\* histogrammed grids, [err, Npart1, Npart2, dim, N, boxlength].  The grids themselves
\* (lines 899-919) only feed dft.fft.
discretize_N(a) ==
    IF a.shape[2] > a.shape[1] THEN [err |-> "ValueError"]
    ELSE IF a.deltax2.given /\ a.deltax2.shape[2] > a.deltax2.shape[1]
    THEN [err |-> "ValueError"]
    ELSE IF a.deltax2.given /\ a.shape[2] # a.deltax2.shape[2]
    THEN [err |-> "ValueError"]
    ELSE [err |-> "",
          Npart1 |-> a.shape[1],
          Npart2 |-> IF a.deltax2.given THEN a.deltax2.shape[1] ELSE a.shape[1],
          dim |-> a.shape[2],
          N |-> [i \in 1..a.shape[2] |-> a.N],
          boxlength |-> [i \in 1..a.shape[2] |-> a.boxlength]]

\* Lines 1073-1098.  Npart1 = 0 stands for None.
GP_Entry ==
    /\ pc = "gp_entry"
    /\ IF call.particles
       THEN \E d \in {discretize_N(call)} :
                IF d.err # ""
                THEN result' = Raise(d.err) /\ pc' = "done" /\ UNCHANGED gp
                ELSE /\ gp' = [Npart1 |-> d.Npart1, Npart2 |-> d.Npart2, dim |-> d.dim,
                               N |-> d.N, V |-> Prod(d.boxlength), freq |-> <<>>,
                               res_ndim |-> 0]
                     /\ pc' = "gp_transform"
                     /\ UNCHANGED result
       ELSE IF call.deltax2.given /\ call.shape # call.deltax2.shape
       THEN result' = Raise("ValueError") /\ pc' = "done" /\ UNCHANGED gp
       ELSE /\ gp' = [Npart1 |-> 0, Npart2 |-> 0, dim |-> Len(call.shape),
                      N |-> call.shape,
                      V |-> Prod([i \in 1..Len(call.shape) |-> call.boxlength]),
                      freq |-> <<>>, res_ndim |-> 0]
            /\ pc' = "gp_transform"
            /\ UNCHANGED result
    /\ UNCHANGED <<op, call, args, n, coords_grid, edges, indx, samples, bins, sumweights,
                   res, var, col, warnings, outcome>>

\* dft.fft(field, L=boxlength, ret_cubegrid=True): a complex spectrum of the shape of
\* the field and one frequency vector per axis, centred on zero.  The model draws the
\* spectrum from Spectra and gives axis a the frequency step FreqStep[a], integers
\* whose radial magnitudes are integers.
FreqStep == <<3, 4>>
fft_freq(shape) ==
    [a \in 1..Len(shape) |-> [j \in 1..shape[a] |-> (j - 1 - (shape[a] \div 2)) * FreqStep[a]]]
Spectra(shape) ==
    { [re |-> [k \in 1..Prod(shape) |-> Int2Rat(1)],
       im |-> [k \in 1..Prod(shape) |-> Int2Rat(0)]],
      [re |-> [k \in 1..Prod(shape) |-> Int2Rat(k % 2)],
       im |-> [k \in 1..Prod(shape) |-> Int2Rat(k % 3)]] }

\* Line 1111 and 1113-1114: P = real(FT * conj(FT2) / V**2), times V when
\* vol_normalised_power.
Power(FT, FT2, V, vol_normalised_power) ==
    [k \in 1..Len(FT.re) |->
        With(RDiv(RAdd(RMul(FT.re[k], FT2.re[k]), RMul(FT.im[k], FT2.im[k])),
                  Int2Rat(V * V)),
             LAMBDA p : IF vol_normalised_power THEN RMul(p, Int2Rat(V)) ELSE p)]

\* Line 1124: int(np.prod(N[:res_ndim]) ** (1.0 / res_ndim) / 2.2), the largest b
\* with (2.2 * b) ** res_ndim <= prod.
DefaultBins(N, res_ndim) ==
    LET Largest(S) == CHOOSE b \in S : \A c \in S : c <= b
    IN  Largest({b \in 0..Prod(Take(N, res_ndim)) :
                    Pow(22 * b, res_ndim) <= Pow(10, res_ndim) * Prod(Take(N, res_ndim))})

\* Lines 1128-1136: the weights handed to the averager.  A scalar k_weights becomes an
\* array of ones; np.logical_and with the mask of ignore_zero_absk (kmag is not 0)
\* gives a boolean array.
KWeights(k_weights, kmag, ignore_zero_mode) ==
    ArrayW(kmag.shape,
           [k \in 1..Len(kmag.v) |->
               With(IF k_weights.scalar THEN 1 ELSE k_weights.v[k],
                    LAMBDA w : IF ~ignore_zero_mode THEN w
                               ELSE IF w # 0 /\ kmag.v[k] # 0 THEN 1 ELSE 0)])

\* Lines 1101-1151: up to the call of angular_average_nd.
GP_Transform ==
    /\ pc = "gp_transform"
    /\ \E FT \in Spectra(gp.N) :
       \E FT2 \in IF call.deltax2.given THEN Spectra(gp.N) ELSE {FT} :
       \E rn \in {IF call.res_ndim = 0 THEN gp.dim ELSE call.res_ndim} :
           /\ gp' = [gp EXCEPT !.freq = fft_freq(gp.N), !.res_ndim = rn]
           /\ args' = [field |-> [shape |-> gp.N, kind |-> "f",
                                  re |-> Power(FT, FT2, gp.V, call.vol_normalised_power),
                                  im |-> [k \in 1..Prod(gp.N) |-> Zero]],
                       coords |-> CoordList(fft_freq(gp.N)),
                       bins |-> IF call.bins = NoBins THEN Count(DefaultBins(gp.N, rn))
                                ELSE call.bins,
                       n |-> rn,
                       weights |-> KWeights(call.k_weights,
                                            _magnitude_grid(Take(fft_freq(gp.N), rn)),
                                            call.ignore_zero_mode),
                       average |-> TRUE,
                       bin_ave |-> call.bin_ave,
                       get_variance |-> call.get_variance,
                       log_bins |-> call.log_bins,
                       interpolation_method |-> "None",
                       interp_points_generator |-> "None",
                       return_sumweights |-> call.return_sumweights]
    /\ pc' = "nd_entry"
    /\ UNCHANGED <<op, call, result, n, coords_grid, edges, indx, samples, bins, sumweights,
                   res, var, col, warnings, outcome>>

\* The term without the square root.
ShotNoiseSquared(V, Npart1, Npart2) == Rat(V * V, Npart1 * Npart2)
\* Line 1155: the shot-noise term sqrt(V**2 / Npart1 / Npart2).
ShotNoise(V, Npart1, Npart2) == RSqrt(Rat(V * V, Npart1 * Npart2))
\* res[0] -= term, on every entry of the averaged power.
Subtract(values, term) ==
    [values EXCEPT !.re = [k \in 1..Len(values.re) |-> RSub(values.re[k], term)]]

\* Lines 187-195 and 708-722: the tuple an averager returns, each element with its
\* name: (res, bins), then var if get_variance, then sumweights if return_sumweights.
Item(name, value) == [item |-> name, value |-> value]
AsTuple(o) ==
    <<Item("res", o.values), Item("bins", o.bins)>>
    \o (IF o.ret_var THEN <<Item("var", o.var)>> ELSE <<>>)
    \o (IF o.ret_sumweights THEN <<Item("sumweights", o.sumweights)>> ELSE <<>>)
\* The list with the frequency vectors appended whatever res_ndim is.
WithFreqAlways(lst, freq, res_ndim, dim) == Append(lst, Item("freq", Drop(freq, res_ndim)))
\* Line 1157: res + [freq[res_ndim:]] if res_ndim < dim else res.
WithFreq(lst, freq, res_ndim, dim) ==
    IF res_ndim < dim THEN Append(lst, Item("freq", Drop(freq, res_ndim))) ELSE lst

\* Lines 1152-1157, after angular_average_nd has returned; an exception it raised
\* leaves get_power as it is.  The result is the outcome with freq, the frequency
\* vectors of the axes that were not averaged (absent when all were).
GP_Return ==
    /\ pc = "gp_return"
    /\ result' = IF outcome.kind = "raise" THEN outcome
                 ELSE [kind |-> "return", exc |-> "",
                       values |-> IF call.remove_shotnoise /\ gp.Npart1 # 0
                                  THEN Subtract(outcome.values,
                                                ShotNoise(gp.V, gp.Npart1, gp.Npart2))
                                  ELSE outcome.values,
                       bins |-> outcome.bins,
                       ret_var |-> outcome.ret_var, var |-> outcome.var,
                       ret_sumweights |-> outcome.ret_sumweights,
                       sumweights |-> outcome.sumweights,
                       ret_freq |-> gp.res_ndim < gp.dim,
                       freq |-> Drop(gp.freq, gp.res_ndim),
                       list |-> WithFreq(AsTuple(
                                   IF call.remove_shotnoise /\ gp.Npart1 # 0
                                   THEN [outcome EXCEPT !.values =
                                            Subtract(outcome.values,
                                                ShotNoise(gp.V, gp.Npart1, gp.Npart2))]
                                   ELSE outcome),
                                   gp.freq, gp.res_ndim, gp.dim)]
    /\ pc' = "done"
    /\ UNCHANGED <<op, call, gp, args, n, coords_grid, edges, indx, samples, bins,
                   sumweights, res, var, col, warnings, outcome>>

\* The calls of get_power: a 2 x 2 density field, alone or with a second field of the
\* same or of another shape, and particle samples in two dimensions gridded on 2 x 2
\* cells, whose particle counts have a rational shot-noise term.
Samples ==
    {<<<<4, 2>>, NoSecond>>, <<<<4, 2>>, Second(<<4, 2>>)>>, <<<<4, 2>>, Second(<<9, 2>>)>>,
     <<<<9, 2>>, NoSecond>>, <<<<1, 2>>, NoSecond>>, <<<<4, 2>>, Second(<<1, 2>>)>>,
     <<<<4, 2>>, Second(<<4, 1>>)>>}
Grids ==
    {<<<<2, 2>>, NoSecond>>, <<<<2, 2>>, Second(<<2, 2>>)>>, <<<<2, 2>>, Second(<<2>>)>>}
PowerBins == {NoBins, Edges(<<0, 3, 6>>), Edges(<<0, 4, 5>>)}
PowerCall ==
    \E pt \in BOOLEAN, L \in 1..MaxW, rm \in BOOLEAN, vn \in BOOLEAN, rn \in 0..3,
       b \in PowerBins, iz \in BOOLEAN, gv \in BOOLEAN, rs \in BOOLEAN :
    \E d \in IF pt THEN Samples ELSE Grids :
    \E kw \in {ScalarW(1), ConstW(IF rn = 1 THEN <<2>> ELSE <<2, 2>>, MaxW),
                CycleW(IF rn = 1 THEN <<2>> ELSE <<2, 2>>)} :
        call = [particles |-> pt, shape |-> d[1], deltax2 |-> d[2], N |-> 2,
                boxlength |-> L, remove_shotnoise |-> rm, vol_normalised_power |-> vn,
                res_ndim |-> rn, bins |-> b, ignore_zero_mode |-> iz, k_weights |-> kw,
                bin_ave |-> TRUE, get_variance |-> gv, log_bins |-> FALSE,
                return_sumweights |-> rs]

\* SpecPower: the caller invokes get_power.
InitPower ==
    /\ op = "get_power"
    /\ PowerCall
    /\ args = call
    /\ pc = "gp_entry"
    /\ InitLocals

NextPower ==
    \/ GP_Entry
    \/ GP_Transform
    \/ ND_Entry
    \/ ND_Setup
    \/ ND_Column
    \/ ND_Return
    \/ AA_Call
    \/ GP_Return

SpecPower == InitPower /\ [][NextPower]_vars

\* ------------------------------------------------------------------------
\* Properties of angular_average, cell-binning path (Spec)
\* ------------------------------------------------------------------------
\* A call of angular_average in the cell-binning path has returned.
BinningReturned ==
    /\ op = "angular_average"
    /\ pc = "done"
    /\ args.interpolation_method = "None"
    /\ outcome.kind = "return"

Radius(k) == Int2Rat(coords_grid.v[k])
AllCells == 1..Len(coords_grid.v)
\* The cells of bin b by the half-open rule e[b] <= r < e[b+1].
HalfOpen(b) == {k \in AllCells : RLe(edges[b], Radius(k)) /\ RLt(Radius(k), edges[b + 1])}
\* The cells below the first edge or at or beyond the last one.
OutOfRange ==
    {k \in AllCells : RLt(Radius(k), edges[1]) \/ RLe(edges[Len(edges)], Radius(k))}
\* The cells the call assigned to bin b.
Assigned(b) == {k \in AllCells : indx[k] = b}
\* Sums over a set S of cells: of the weights, of weight * field, of weight * radius.
SumW(S) == SumOver([k \in S |-> Int2Rat(WAt(args.weights, k))], S)
SumWF(S, v) == SumOver([k \in S |-> RMul(Int2Rat(WAt(args.weights, k)), v[k])], S)
SumWR(S) == SumOver([k \in S |-> RMul(Int2Rat(WAt(args.weights, k)), Radius(k))], S)
\* What the code divides the weighted sums of bin cells S by.
Counted(S) == IF args.weights.scalar THEN Int2Rat(Cardinality(S)) ELSE SumW(S)

\* C1: in the cell-binning path of angular_average, for strictly increasing edges, a
\* cell contributes to bin b exactly when e[b] <= r < e[b+1]: the cells assigned to b
\* are those of the half-open interval, the value, the representative coordinate and
\* the summed weight of b are the reductions over exactly those cells, and a cell with
\* r < e[0] or r >= e[m] (r equal to the last edge included) is assigned to no bin.
C1_HalfOpenBins ==
    (BinningReturned /\ StrictlyIncreasing(edges)) =>
        /\ \A b \in 1..(Len(edges) - 1) :
              /\ Assigned(b) = HalfOpen(b)
              /\ sumweights[b] = (IF args.average THEN Counted(HalfOpen(b)) ELSE One)
              /\ res.re[b] = RDiv(SumWF(HalfOpen(b), args.field.re), sumweights[b])
              /\ res.im[b] = (IF args.field.kind = "c"
                              THEN RDiv(SumWF(HalfOpen(b), args.field.im), sumweights[b])
                              ELSE Zero)
              /\ args.bin_ave =>
                    bins[b] = RDiv(SumWR(HalfOpen(b)), Counted(HalfOpen(b)))
        /\ \A k \in OutOfRange : indx[k] \in {0, Len(edges)}

\* A returned call with a cell below the first edge, a cell exactly at the last edge
\* that holds a non-zero field value, and a bin with a cell whose value is zero: the
\* excluded cells changed nothing.
C1_Witness ==
    /\ BinningReturned
    /\ StrictlyIncreasing(edges)
    /\ args.average /\ args.bin_ave
    /\ \E k \in AllCells : RLt(Radius(k), edges[1])
    /\ \E k \in AllCells : Radius(k) = edges[Len(edges)] /\ args.field.re[k] = One
    /\ \E b \in 1..(Len(edges) - 1) : HalfOpen(b) # {} /\ res.re[b] = Zero

\* C2: with average=True in the cell-binning path, for array or scalar weights, the
\* value of every bin with non-zero summed weight is the sum of weight * field over
\* the cells assigned to the bin divided by the sum of the weights of those cells.
C2_WeightedMean ==
    (BinningReturned /\ args.average) =>
        \A b \in 1..Len(res.re) :
            SumW(Assigned(b)) # Zero =>
                /\ res.re[b] = RDiv(SumWF(Assigned(b), args.field.re), SumW(Assigned(b)))
                /\ args.field.kind = "c" =>
                      res.im[b] = RDiv(SumWF(Assigned(b), args.field.im),
                                       SumW(Assigned(b)))

\* Weights that are the same for every cell: a scalar or a constant array, positive.
UniformWeights ==
    \/ args.weights.scalar /\ args.weights.c > 0
    \/ /\ ~args.weights.scalar
       /\ \A k \in 1..Len(args.weights.v) :
             args.weights.v[k] = args.weights.v[1] /\ args.weights.v[k] > 0

\* C3: with uniform weights and average=False in the cell-binning path, the per-bin
\* weight reported with return_sumweights=True is the number of cells assigned to the
\* bin, and the reported weights sum to the number of cells minus the number of
\* out-of-range cells.
C3_ReportedCount ==
    (BinningReturned /\ ~args.average /\ args.return_sumweights /\ UniformWeights) =>
        /\ \A b \in 1..Len(outcome.sumweights) :
              outcome.sumweights[b] = Int2Rat(Cardinality(Assigned(b)))
        /\ RSum(outcome.sumweights)
              = Int2Rat(Cardinality(AllCells) - Cardinality(OutOfRange))

\* The unbiased sample variance of the field over the cells S divided by their number.
VarianceOfMean(S) ==
    With(RDiv(SumOver([k \in S |-> args.field.re[k]], S), Int2Rat(Cardinality(S))),
         LAMBDA mean :
         RDiv(RDiv(SumOver([k \in S |-> RMul(RSub(args.field.re[k], mean),
                                             RSub(args.field.re[k], mean))], S),
                   Int2Rat(Cardinality(S) - 1)),
              Int2Rat(Cardinality(S))))

\* C4: with uniform weights and get_variance=True on a real field in the cell-binning
\* path, the variance of each bin holding at least two cells is the unbiased sample
\* variance of the bin's cell values divided by the bin's cell count.
C4_VarianceOfMean ==
    (BinningReturned /\ args.get_variance /\ args.field.kind # "c" /\ UniformWeights) =>
        \A b \in 1..Len(var.v) :
            Cardinality(Assigned(b)) >= 2 => var.v[b] = VarianceOfMean(Assigned(b))

\* ------------------------------------------------------------------------
\* Properties of angular_average_nd (SpecND)
\* ------------------------------------------------------------------------
NDDone == op = "angular_average_nd" /\ pc = "done"
AllAxes == call.n = 0 \/ call.n = Len(call.field.shape)

SubCall(a, t) ==
    [a EXCEPT !.field = Column(a.field, Prod(Take(a.field.shape, a.n)),
                               Prod(Drop(a.field.shape, a.n)), t),
              !.coords = CoordList(Take(a.coords.rows, a.n)),
              !.n = 0]
Trailing == Prod(Drop(call.field.shape, call.n))

\* C6: for angular_average_nd with n smaller than the field's dimensionality in the
\* cell-binning path, the values have the shape (number of bins,) + field.shape[n:],
\* every slice values[:, t] is what angular_average returns for the sub-field
\* field[..., t] with coords[:n] and the same bins, weights and flags, and the bin
\* assignment and the bin coordinates are those of that call for every column.
C6_ColumnsAreSubAverages ==
    (NDDone /\ ~AllAxes /\ call.interpolation_method = "None" /\ outcome.kind = "return")
    =>  /\ outcome.values.shape = <<Len(sumweights)>> \o Drop(call.field.shape, call.n)
        /\ \A t \in 0..(Trailing - 1) :
              With(angular_average(SubCall(call, t)), LAMBDA sub :
                   /\ sub.outcome.kind = "return"
                   /\ sub.indx = indx
                   /\ sub.outcome.bins = outcome.bins
                   /\ \A b \in 1..Len(sumweights) :
                         /\ outcome.values.re[(b - 1) * Trailing + t + 1]
                               = sub.outcome.values.re[b]
                         /\ outcome.values.im[(b - 1) * Trailing + t + 1]
                               = sub.outcome.values.im[b])

\* The weights are a scalar or have the shape of the averaged grid, and no variance of
\* a complex field is asked for: nothing but an empty bin is unusual about the call.
OtherwiseValid ==
    /\ call.weights.scalar \/ call.weights.shape = coords_grid.shape
    /\ ~(call.get_variance /\ call.field.kind = "c")
\* The bins that no cell was assigned to.
EmptyBins == {b \in 1..(Len(edges) - 1) : \A k \in 1..Len(indx) : indx[k] # b}

\* C7: whenever angular_average or angular_average_nd is called in the cell-binning
\* path (any average, bin_ave and n) and some bin has no cell assigned to it, the
\* call does not raise, the value of that bin is not-a-number, and the empty-bin
\* warning is emitted during the call.
C7_EmptyBinWarned ==
    (/\ NDDone
     /\ call.interpolation_method = "None"
     /\ OtherwiseValid
     /\ indx # <<>>
     /\ EmptyBins # {})
    =>  /\ outcome.kind = "return"
        /\ \A b \in EmptyBins :
              \A t \in 0..((Len(outcome.values.re) \div Len(sumweights)) - 1) :
                  IsNaN(outcome.values.re[(b - 1)
                           * (Len(outcome.values.re) \div Len(sumweights)) + t + 1])
        /\ EmptyBinWarning \in warnings

\* C8: a call of angular_average or angular_average_nd that asks for the variance of
\* a complex field, or for the variance together with interpolation, never returns a
\* result: it fails with NotImplementedError whatever the other arguments are.
C8_VarianceUnsupported ==
    (/\ NDDone
     /\ call.get_variance
     /\ call.field.kind = "c" \/ call.interpolation_method # "None")
    =>  outcome.kind = "raise" /\ outcome.exc = "NotImplementedError"

\* ------------------------------------------------------------------------
\* Properties of the interpolation path of angular_average (Spec)
\* ------------------------------------------------------------------------
\* A call of angular_average with linear interpolation whose arguments pass the
\* checks made before the sample points are generated has ended.
InterpolationDone ==
    /\ op = "angular_average"
    /\ pc = "done"
    /\ call.interpolation_method = "linear"
    /\ PyLen(call.coords) = Len(call.field.shape)
    /\ CanReshape(call.weights, call.field.shape)
\* The target radii of the call and the points generated for them.
TargetRadii ==
    Midpoints(_getbins(call.bins, _magnitude_grid(AsList(call.coords)),
                       call.log_bins).bins, call.log_bins)
Generated ==
    IF PyLen(call.coords) > 1
    THEN GeneratedSamples(call.interp_points_generator, TargetRadii)
    ELSE { [r |-> TargetRadii[b], x |-> <<TargetRadii[b]>>] : b \in 1..Len(TargetRadii) }
\* The point x is inside the bounding box of the coordinate vectors, bounds included.
Inside(x) ==
    \A a \in 1..Len(x) :
        /\ \E j \in 1..Len(call.coords.rows[a]) : RLe(Int2Rat(call.coords.rows[a][j]), x[a])
        /\ \E j \in 1..Len(call.coords.rows[a]) : RLe(x[a], Int2Rat(call.coords.rows[a][j]))

\* C9: in interpolation mode every sample point that is evaluated lies inside the
\* per-axis bounding box [min(coords_a), max(coords_a)], bounds included, the other
\* generated points are discarded together with their radius, and when no generated
\* point is left the call fails with ValueError instead of returning a result.
C9_SamplesInsideBox ==
    InterpolationDone =>
        /\ \A s \in samples : Inside(s.x)
        /\ \A s \in Generated : Inside(s.x) =>
              (s \in samples \/ (outcome.kind = "raise" /\ samples = {}))
        /\ samples \subseteq Generated
        /\ {s \in Generated : Inside(s.x)} = {} =>
              outcome.kind = "raise" /\ outcome.exc = "ValueError"

\* A call returned after some generated points were discarded and others kept, one
\* of the kept points lying on a bound of the box.
C9_Witness ==
    /\ InterpolationDone
    /\ outcome.kind = "return"
    /\ \E s \in Generated : s \notin samples
    /\ \E s \in samples : \E a \in 1..Len(s.x) :
          s.x[a] = Int2Rat(MaxOf(call.coords.rows[a]))
\* ------------------------------------------------------------------------
\* Properties of get_power (SpecPower)
\* ------------------------------------------------------------------------
\* get_power has returned; outcome still holds what angular_average_nd returned.
PowerReturned ==
    /\ op = "get_power"
    /\ pc = "done"
    /\ result.kind = "return"

\* The particle counts and the volume, from the arguments.
N1 == call.shape[1]
N2 == IF call.deltax2.given THEN call.deltax2.shape[1] ELSE call.shape[1]
Volume == Pow(call.boxlength, IF call.particles THEN call.shape[2] ELSE Len(call.shape))
\* x is the shot-noise term: not negative, and its square is V^2 / (N1 * N2).
IsShotNoise(x) == ~RLt(x, Zero) /\ RMul(x, x) = Rat(Volume * Volume, N1 * N2)
\* The value returned for a power value p averaged by angular_average_nd.
ShotNoiseRemoved(p, r) ==
    IF call.particles /\ call.remove_shotnoise /\ IsFinite(p)
    THEN IsFinite(r) /\ IsShotNoise(RSub(p, r))
    ELSE r = p

\* C10: get_power returns the averaged power minus the shot-noise term
\* sqrt(V^2 / (N1 * N2)), on every value, exactly when the input is a particle sample
\* and remove_shotnoise is set, and the averaged power itself otherwise; the bin
\* coordinates, the variance and the summed weights are those of the averaging.
C10_ShotNoise ==
    PowerReturned =>
        /\ result.values.shape = outcome.values.shape
        /\ Len(result.values.re) = Len(outcome.values.re)
        /\ \A k \in 1..Len(outcome.values.re) :
              ShotNoiseRemoved(outcome.values.re[k], result.values.re[k])
        /\ result.bins = outcome.bins
        /\ result.ret_var = outcome.ret_var /\ result.var = outcome.var
        /\ result.ret_sumweights = outcome.ret_sumweights
        /\ result.sumweights = outcome.sumweights
\* A particle sample with a second sample of another size, shot noise removed from a
\* finite power value, with the variance returned.
C10_Witness ==
    /\ PowerReturned
    /\ call.particles /\ call.remove_shotnoise
    /\ call.deltax2.given /\ N2 # N1
    /\ call.get_variance
    /\ result.values # outcome.values
    /\ \E k \in 1..Len(outcome.values.re) : IsFinite(outcome.values.re[k])
\* get_power has called angular_average_nd: gp holds its locals, args the arguments
\* of the call.
PowerAveraging ==
    /\ op = "get_power"
    /\ gp # NoPower
    /\ pc \notin {"gp_entry", "gp_transform"}
\* b is (product of the sizes of the averaged axes)^(1 / res_ndim) / 2.2 rounded to the
\* nearest integer: 2.2 * (b - 1/2) <= root <= 2.2 * (b + 1/2).
AveragedSize == Prod(Take(gp.N, gp.res_ndim))
IsRounded(b) ==
    /\ b >= 0
    /\ b > 0 => Pow(11 * (2 * b - 1), gp.res_ndim) <= Pow(10, gp.res_ndim) * AveragedSize
    /\ Pow(10, gp.res_ndim) * AveragedSize <= Pow(11 * (2 * b + 1), gp.res_ndim)

\* C11: with bins = None, the bin count get_power hands to the averager is
\* (product of the grid sizes of the averaged axes)^(1 / res_ndim) / 2.2 rounded to
\* the nearest integer.
C11_DefaultBinCount ==
    (PowerAveraging /\ call.bins = NoBins) =>
        ~args.bins.iterable /\ IsRounded(args.bins.count)

\* The sequence (power, k_bins[, variance][, summed weights]) of a returned call.
Sequence ==
    <<Item("res", result.values), Item("bins", result.bins)>>
    \o (IF call.get_variance THEN <<Item("var", result.var)>> ELSE <<>>)
    \o (IF call.return_sumweights THEN <<Item("sumweights", result.sumweights)>> ELSE <<>>)
\* C12: get_power returns (power, k_bins, variance if get_variance, summed weights if
\* return_sumweights), followed by the list of the frequency vectors of the trailing
\* axes exactly when res_ndim < dim.
C12_ResultSequence ==
    PowerReturned =>
        result.list = IF gp.res_ndim < gp.dim
                      THEN Append(Sequence,
                                  Item("freq", SubSeq(gp.freq, gp.res_ndim + 1, gp.dim)))
                      ELSE Sequence
\* One axis of two averaged, with variance and summed weights: five elements.
C12_Witness ==
    /\ PowerReturned
    /\ call.res_ndim = 1 /\ call.get_variance /\ call.return_sumweights
    /\ Len(result.list) = 5
    /\ result.list[5] = Item("freq", <<gp.freq[2]>>)
\* ------------------------------------------------------------------------
\* Properties of the bin edges (Spec)
\* ------------------------------------------------------------------------
\* A call of angular_average has returned; edges holds what _getbins gave.
AAReturned ==
    /\ op = "angular_average"
    /\ pc = "done"
    /\ outcome.kind = "return"
\* The largest radial value on the line through cell k along axis a.
GridLine(k, a) == {j \in AllCells : SameLine(coords_grid.shape, k, j, a)}
IsLineMax(x, k, a) ==
    /\ \E j \in GridLine(k, a) : coords_grid.v[j] = x
    /\ \A j \in GridLine(k, a) : coords_grid.v[j] <= x
GridAxes == 1..Len(coords_grid.shape)
\* x is the smallest, over all axes and lines, of the largest value along a line.
IsInscribedRadius(x) ==
    /\ \E a \in GridAxes, k \in AllCells : IsLineMax(x, k, a)
    /\ \A a \in GridAxes, k \in AllCells : \E y \in x..MaxOf(coords_grid.v) : IsLineMax(y, k, a)
\* x is the first edge: the smallest value of the grid, the smallest positive one in
\* log mode.
IsLowerBound(x) ==
    /\ \E k \in AllCells : coords_grid.v[k] = x
    /\ args.log_bins => x > 0
    /\ \A k \in AllCells : (args.log_bins => coords_grid.v[k] > 0) => x <= coords_grid.v[k]
IsInt(r, x) == r = Int2Rat(x)
EdgesOfCount ==
    /\ Len(edges) = args.bins.count + 1
    /\ \E x \in 0..MaxOf(coords_grid.v) : IsLowerBound(x) /\ IsInt(edges[1], x)
    /\ \E x \in 0..MaxOf(coords_grid.v) : IsInscribedRadius(x) /\ IsInt(edges[Len(edges)], x)

\* C13 as stated: for a bin count c, _getbins gives c + 1 edges, the first the smallest
\* (in log mode smallest positive) radial value and the last the inscribed radius;
\* explicit edges are passed through.
C13_Original ==
    AAReturned => IF args.bins.iterable THEN edges = args.bins.edges ELSE EdgesOfCount
\* C13: the same for a bin count of at least 1; for the count 0 the single edge is the
\* lower bound.
C13_GetBins ==
    AAReturned =>
        IF args.bins.iterable THEN edges = args.bins.edges
        ELSE IF args.bins.count >= 1 THEN EdgesOfCount
        ELSE /\ Len(edges) = 1
             /\ \E x \in 0..MaxOf(coords_grid.v) : IsLowerBound(x) /\ IsInt(edges[1], x)
\* Two bins on the 2 x 3 grid, whose inscribed radius 3 is smaller than the largest
\* radial value 5.
C13_Witness ==
    /\ AAReturned
    /\ coords_grid.shape = <<2, 3>>
    /\ args.bins = Count(2) /\ ~args.log_bins
    /\ edges = <<Int2Rat(0), Rat(3, 2), Int2Rat(3)>>
    /\ MaxOf(coords_grid.v) = 5
\* C14: in every call of angular_average or angular_average_nd that returns, the bin
\* edges used are strictly increasing, derived from a count or supplied by the caller.
C14_StrictEdges ==
    (op \in {"angular_average", "angular_average_nd"} /\ pc = "done"
        /\ outcome.kind = "return") => StrictlyIncreasing(edges)
\* C15: in the cell-binning path the returned bin coordinates have one entry per bin,
\* as many as the returned values: with bin_ave the weighted mean radial coordinate of
\* the cells assigned to the bin, without it the midpoint of the two edges of the bin.
C15_BinCoordinates ==
    BinningReturned =>
        /\ Len(outcome.bins) = Len(outcome.values.re)
        /\ \A b \in 1..Len(outcome.values.re) :
              IF args.bin_ave
              THEN SumW(Assigned(b)) # Zero =>
                      outcome.bins[b] = RDiv(SumWR(Assigned(b)), SumW(Assigned(b)))
              ELSE outcome.bins[b] = RHalf(RAdd(edges[b], edges[b + 1]))
\* ------------------------------------------------------------------------
\* Properties of the interpolation path (Spec)
\* ------------------------------------------------------------------------
\* A call of angular_average with linear interpolation has returned; bins holds the
\* target radii, samples the evaluated points.
InterpReturned ==
    /\ op = "angular_average"
    /\ pc = "done"
    /\ args.interpolation_method = "linear"
    /\ outcome.kind = "return"
\* The interpolated value (real part) at the sample s, missing where it is NaN.
SampleValue(s) ==
    Interpolate(AsList(args.coords), args.field.shape,
                WeightedOrNaN(args.field.re, args.weights), s.x)
\* The non-missing samples at the target radius r.
ValidAt(r) == {s \in samples : s.r = r /\ ~IsNaN(SampleValue(s))}
MeanAt(r) ==
    RDiv(SumOver([s \in ValidAt(r) |-> SampleValue(s)], ValidAt(r)),
         Int2Rat(Cardinality(ValidAt(r))))

\* C16: in interpolation mode the value at each target radius is the mean of the
\* non-missing samples at that radius, and the summed weights have one entry per
\* target radius, in bin order, the count of the non-missing samples at that radius.
C16_InterpolatedBins ==
    InterpReturned =>
        /\ Len(outcome.values.re) = Len(bins)
        /\ \A b \in 1..Len(bins) : outcome.values.re[b] = MeanAt(bins[b])
        /\ Len(sumweights) = Len(bins)
        /\ \A b \in 1..Len(bins) : sumweights[b] = Int2Rat(Cardinality(ValidAt(bins[b])))
\* ------------------------------------------------------------------------
\* Properties of the interpolation path of angular_average_nd (SpecND)
\* ------------------------------------------------------------------------
\* The weights are an array of zeros of the shape of the averaged axes, so that every
\* sample that is evaluated is missing.
AveragedShape == Take(call.field.shape, IF call.n = 0 THEN Len(call.field.shape) ELSE call.n)
ZeroWeights ==
    /\ ~call.weights.scalar
    /\ call.weights.shape = AveragedShape
    /\ \A k \in 1..Len(call.weights.v) : call.weights.v[k] = 0

\* C17: in interpolation mode, when every evaluated sample is missing, angular_average
\* and angular_average_nd, for every n, warn and return all-NaN values; they do not
\* raise.
C17_AllMissingWarned ==
    (/\ NDDone
     /\ call.interpolation_method = "linear"
     /\ ~call.get_variance
     /\ ZeroWeights
     /\ samples # {})
    =>  /\ outcome.kind = "return"
        /\ \A k \in 1..Len(outcome.values.re) : IsNaN(outcome.values.re[k])
        /\ InterpWarning \in warnings
\* ------------------------------------------------------------------------
\* Properties of the weights
\* ------------------------------------------------------------------------
\* C18: a weights array whose shape differs from the shape of the field (of the
\* averaged leading axes for angular_average_nd) makes the call fail with ValueError,
\* in the cell-binning and in the interpolation path, whatever average and bin_ave.
C18_WeightsShape ==
    (/\ op \in {"angular_average", "angular_average_nd"}
     /\ pc = "done"
     /\ ~call.weights.scalar
     /\ call.weights.shape # AveragedShape)
    =>  outcome.kind = "raise" /\ outcome.exc = "ValueError"
\* ------------------------------------------------------------------------
\* Properties of the number of averaged axes
\* ------------------------------------------------------------------------
\* The number of axes asked for and the number the field has.
AxesAsked == IF op = "get_power" THEN call.res_ndim ELSE call.n
AxesOfField ==
    IF op = "get_power" THEN (IF call.particles THEN call.shape[2] ELSE Len(call.shape))
    ELSE Len(call.field.shape)
Ended == IF op = "get_power" THEN result ELSE outcome

\* C19: angular_average_nd with n greater than the number of dimensions of the field,
\* and get_power with such a res_ndim, fail with ValueError at their entry, before
\* any binning.
C19_TooManyAxes ==
    (/\ op \in {"angular_average_nd", "get_power"}
     /\ pc = "done"
     /\ AxesAsked > AxesOfField)
    =>  /\ Ended.kind = "raise" /\ Ended.exc = "ValueError"
        /\ indx = <<>> /\ edges = <<>>
\* ------------------------------------------------------------------------
\* Frame properties (Spec)
\* ------------------------------------------------------------------------
\* A call of angular_average has ended, by a return or by an exception.
AAEnded == op = "angular_average" /\ pc = "done"
C21_VarianceShape ==
    (NDDone /\ ~AllAxes /\ call.get_variance /\ outcome.kind = "return")
    =>  /\ outcome.var.shape = outcome.values.shape
        /\ outcome.var.shape = <<Len(sumweights)>> \o Drop(call.field.shape, call.n)

\* The wavenumber magnitudes over the averaged axes, and the weights k_weights gives
\* with those of the zero modes set to zero.
KMag == _magnitude_grid(Take(gp.freq, gp.res_ndim))
ZeroModeRemoved ==
    ArrayW(KMag.shape,
           [k \in 1..Len(KMag.v) |->
               IF KMag.v[k] = 0 THEN 0
               ELSE IF call.k_weights.scalar THEN call.k_weights.c ELSE call.k_weights.v[k]])

\* C22: in get_power with ignore_zero_mode=True the averager is handed the weights of
\* k_weights with only those of the zero-magnitude modes set to zero, and the averaged
\* power, bin coordinates, variance and summed weights are the ones obtained with
\* those weights.
C22_OnlyZeroModeMasked ==
    (PowerAveraging /\ call.ignore_zero_mode)
    =>  /\ args.weights = ZeroModeRemoved
        /\ (pc = "done" /\ gp.res_ndim = gp.dim)
            => outcome = angular_average([args EXCEPT !.weights = ZeroModeRemoved]).outcome

\* C23: when coords is an array of radial magnitudes of the shape of the field and
\* nothing is interpolated, the call returns and has binned the cells by that array
\* unchanged, whatever the shape of the field; a list of per-axis coordinate vectors
\* is turned into its magnitude grid.
C23_MagnitudesUnchanged ==
    (AAEnded /\ call.interpolation_method = "None"
        /\ (call.coords.ndim = 0 => outcome.kind = "return"))
    =>  /\ call.coords.ndim > 0 => outcome.kind = "return"
        /\ coords_grid = (IF call.coords.ndim > 0 THEN AsArray(call.coords)
                          ELSE _magnitude_grid(call.coords.rows))

====
